---- MODULE Spec2Model ----
(***************************************************************************)
(* The URL deduplication engine of pyURLs: URLNormalizer.normalize and     *)
(* URLDeduplicator (src/crawler/utils/normalize.py, deduplication.py).     *)
(*                                                                         *)
(* A Python str is a sequence of one-character strings, so that parsing,   *)
(* case folding, substitution and re-encoding are computed character by    *)
(* character as the code does.                                             *)
(***************************************************************************)
EXTENDS Integers, Sequences, FiniteSets, TLC

-----------------------------------------------------------------------------
(* Python str primitives used by normalize.py and deduplication.py.        *)

\* Code points of the ASCII characters that occur in URLs here.
ord ==
    " " :> 32 @@ "#" :> 35 @@ "%" :> 37 @@ "&" :> 38 @@ "+" :> 43 @@ "-" :> 45
    @@ "." :> 46 @@ "/" :> 47 @@ "0" :> 48 @@ "1" :> 49 @@ "2" :> 50 @@ "3" :> 51
    @@ "4" :> 52 @@ "5" :> 53 @@ "6" :> 54 @@ "7" :> 55 @@ "8" :> 56 @@ "9" :> 57
    @@ ":" :> 58 @@ ";" :> 59 @@ "=" :> 61 @@ "?" :> 63 @@ "A" :> 65 @@ "B" :> 66
    @@ "C" :> 67 @@ "D" :> 68 @@ "E" :> 69 @@ "F" :> 70 @@ "G" :> 71 @@ "H" :> 72
    @@ "I" :> 73 @@ "J" :> 74 @@ "K" :> 75 @@ "L" :> 76 @@ "M" :> 77 @@ "N" :> 78
    @@ "O" :> 79 @@ "P" :> 80 @@ "Q" :> 81 @@ "R" :> 82 @@ "S" :> 83 @@ "T" :> 84
    @@ "U" :> 85 @@ "V" :> 86 @@ "W" :> 87 @@ "X" :> 88 @@ "Y" :> 89 @@ "Z" :> 90
    @@ "[" :> 91 @@ "]" :> 93 @@ "_" :> 95 @@ "a" :> 97 @@ "b" :> 98 @@ "c" :> 99
    @@ "d" :> 100 @@ "e" :> 101 @@ "f" :> 102 @@ "g" :> 103 @@ "h" :> 104 @@ "i" :> 105
    @@ "j" :> 106 @@ "k" :> 107 @@ "l" :> 108 @@ "m" :> 109 @@ "n" :> 110 @@ "o" :> 111
    @@ "p" :> 112 @@ "q" :> 113 @@ "r" :> 114 @@ "s" :> 115 @@ "t" :> 116 @@ "u" :> 117
    @@ "v" :> 118 @@ "w" :> 119 @@ "x" :> 120 @@ "y" :> 121 @@ "z" :> 122 @@ "~" :> 126

chr(n) == CHOOSE c \in DOMAIN ord : ord[c] = n

isupper(c) == c \in DOMAIN ord /\ ord[c] >= ord["A"] /\ ord[c] <= ord["Z"]

islower(c) == c \in DOMAIN ord /\ ord[c] >= ord["a"] /\ ord[c] <= ord["z"]

isdigit(c) == c \in DOMAIN ord /\ ord[c] >= ord["0"] /\ ord[c] <= ord["9"]

isalpha(c) == isupper(c) \/ islower(c)

lower_char(c) == IF isupper(c) THEN chr(ord[c] - ord["A"] + ord["a"]) ELSE c

\* A lower() that leaves the letters as they are.
lower_keeping_case(s) == s

\* str.lower()
lower(s) == [i \in 1..Len(s) |-> lower_char(s[i])]

\* The least element of a non-empty set of integers.
min(S) == CHOOSE x \in S : \A y \in S : x <= y

\* str.find(c, start) for a one-character c, 1-based; 0 where Python gives -1.
find(s, c, start) ==
    LET hits == {j \in start..Len(s) : s[j] = c}
    IN  IF hits = {} THEN 0 ELSE min(hits)

\* str.rfind(c), 1-based; 0 where Python gives -1.
rfind(s, c) ==
    LET hits == {j \in 1..Len(s) : s[j] = c}
    IN  IF hits = {} THEN 0 ELSE CHOOSE x \in hits : \A y \in hits : y <= x

\* s[i-1:].startswith(pat) for a 1-based position i.
startswith_at(s, pat, i) ==
    /\ i + Len(pat) - 1 <= Len(s)
    /\ SubSeq(s, i, i + Len(pat) - 1) = pat

endswith(s, suffix) ==
    /\ Len(suffix) <= Len(s)
    /\ SubSeq(s, Len(s) - Len(suffix) + 1, Len(s)) = suffix

RECURSIVE replace_from(_, _, _, _)
replace_from(s, old, new, i) ==
    IF i > Len(s) THEN << >>
    ELSE IF startswith_at(s, old, i)
         THEN new \o replace_from(s, old, new, i + Len(old))
         ELSE <<s[i]>> \o replace_from(s, old, new, i + 1)

\* str.replace(old, new): left to right, non-overlapping, old non-empty.
replace(s, old, new) == replace_from(s, old, new, 1)

\* An rstrip that strips nothing.
rstrip_nothing(s, c) == s

RECURSIVE rstrip(_, _)
\* str.rstrip(c)
rstrip(s, c) ==
    IF s # << >> /\ s[Len(s)] = c THEN rstrip(SubSeq(s, 1, Len(s) - 1), c) ELSE s

RECURSIVE lstrip(_, _)
\* str.lstrip(c)
lstrip(s, c) ==
    IF s # << >> /\ s[1] = c THEN lstrip(Tail(s), c) ELSE s

RECURSIVE split(_, _)
\* str.split(c): the pieces between the occurrences of c.
split(s, c) ==
    LET i == find(s, c, 1)
    IN  IF i = 0 THEN <<s>>
        ELSE <<SubSeq(s, 1, i - 1)>> \o split(SubSeq(s, i + 1, Len(s)), c)

\* re.sub(suffix$, empty, s): one match, at the end of s only.
re_sub_at_end(suffix, s) ==
    IF endswith(s, suffix) THEN SubSeq(s, 1, Len(s) - Len(suffix)) ELSE s

RECURSIVE str_lt(_, _)
\* a < b on str: lexicographic by code point.
str_lt(a, b) ==
    IF b = << >> THEN FALSE
    ELSE IF a = << >> THEN TRUE
    ELSE IF a[1] # b[1] THEN ord[a[1]] < ord[b[1]]
    ELSE str_lt(Tail(a), Tail(b))

\* Python's None, distinct from every str.
None == <<"None">>

-----------------------------------------------------------------------------
(* urllib.parse as called by normalize.py and deduplication.py.            *)

scheme_chars == {c \in DOMAIN ord : isalpha(c) \/ isdigit(c) \/ c \in {"+", "-", "."}}

s_http == <<"h","t","t","p">>

s_https == <<"h","t","t","p","s">>

s_ftp == <<"f","t","p">>

\* urllib.parse.uses_netloc and uses_params, cut to the schemes of the inputs
\* (both hold '', ftp, http and https).
uses_netloc == {<< >>, s_ftp, s_http, s_https}

uses_params == {<< >>, s_ftp, s_http, s_https}

\* s up to the first c (all of s when it has none): s.split(c, 1)[0].
before(s, c) ==
    IF find(s, c, 1) = 0 THEN s ELSE SubSeq(s, 1, find(s, c, 1) - 1)

\* s after the first c ('' when it has none).
after(s, c) ==
    IF find(s, c, 1) = 0 THEN << >> ELSE SubSeq(s, find(s, c, 1) + 1, Len(s))

\* _splitparams(path)[0], applied when the scheme is in uses_params and the
\* path holds a ';': the ;params of the last path segment are cut off.
splitparams(scheme, path) ==
    IF scheme \in uses_params /\ find(path, ";", rfind(path, "/") + 1) # 0
    THEN SubSeq(path, 1, find(path, ";", rfind(path, "/") + 1) - 1)
    ELSE path

\* The end of urlsplit: fragment and query are cut off what follows the
\* netloc. raises is the ValueError("Invalid IPv6 URL") of an unbalanced
\* bracket in the netloc (no input here has a balanced pair, whose content
\* urlsplit validates).
urlsplit_rest(scheme, netloc, rest) ==
    [raises   |-> (find(netloc, "[", 1) # 0) # (find(netloc, "]", 1) # 0),
     scheme   |-> scheme,
     netloc   |-> netloc,
     path     |-> splitparams(scheme, before(before(rest, "#"), "?")),
     query    |-> after(before(rest, "#"), "?"),
     fragment |-> after(rest, "#")]

\* _splitnetloc(url, 2): the 1-based place of the first of '/?#' after the
\* leading '//', or one past the end.
netloc_end(url) ==
    IF {j \in 3..Len(url) : url[j] \in {"/", "?", "#"}} = {} THEN Len(url) + 1
    ELSE min({j \in 3..Len(url) : url[j] \in {"/", "?", "#"}})

\* The middle of urlsplit: the netloc after a leading '//'.
urlsplit_netloc(scheme, url) ==
    urlsplit_rest(
        scheme,
        IF startswith_at(url, <<"/", "/">>, 1)
            THEN SubSeq(url, 3, netloc_end(url) - 1) ELSE << >>,
        IF startswith_at(url, <<"/", "/">>, 1)
            THEN SubSeq(url, netloc_end(url), Len(url)) ELSE url)

\* url[:i] is a scheme: i is the place of the first ':', not the first
\* character, after a letter and scheme characters only.
has_scheme(url, i) ==
    /\ i > 1
    /\ isalpha(url[1])
    /\ \A j \in 1..(i - 1) : url[j] \in scheme_chars

\* The start of urlsplit: the scheme, lower-cased, before the first ':'.
urlsplit_scheme(url, i) ==
    urlsplit_netloc(
        IF has_scheme(url, i) THEN lower(SubSeq(url, 1, i - 1)) ELSE << >>,
        IF has_scheme(url, i) THEN SubSeq(url, i + 1, Len(url)) ELSE url)

\* urlparse(url): leading spaces are stripped, then scheme, netloc, path,
\* query and fragment are cut as urlsplit cuts them.
urlparse_stripped(url) == urlsplit_scheme(url, find(url, ":", 1))

urlparse(url) == urlparse_stripped(lstrip(url, " "))

\* urlunparse((scheme, netloc, path, '', query, '')).
urlunparse(scheme, netloc, path, query) ==
    LET u1 == IF \/ netloc # << >>
                 \/ (scheme # << >> /\ scheme \in uses_netloc
                     /\ ~startswith_at(path, <<"/", "/">>, 1))
              THEN <<"/", "/">> \o netloc
                   \o (IF path # << >> /\ path[1] # "/" THEN <<"/">> \o path ELSE path)
              ELSE path
        u2 == IF scheme # << >> THEN scheme \o <<":">> \o u1 ELSE u1
    IN  IF query # << >> THEN u2 \o <<"?">> \o query ELSE u2

hexdigits == <<"0","1","2","3","4","5","6","7","8","9","A","B","C","D","E","F">>

ishex(c) == isdigit(c) \/ lower_char(c) \in {"a", "b", "c", "d", "e", "f"}

hexval(c) == IF isdigit(c) THEN ord[c] - ord["0"] ELSE ord[lower_char(c)] - ord["a"] + 10

RECURSIVE unquote(_)
\* unquote(s): the %XX escapes of the characters of ord are decoded; any
\* other % is kept as it is.
unquote(s) ==
    IF s = << >> THEN << >>
    ELSE IF /\ s[1] = "%"
            /\ Len(s) >= 3
            /\ ishex(s[2]) /\ ishex(s[3])
            /\ \E c \in DOMAIN ord : ord[c] = 16 * hexval(s[2]) + hexval(s[3])
         THEN <<chr(16 * hexval(s[2]) + hexval(s[3]))>>
              \o unquote(SubSeq(s, 4, Len(s)))
         ELSE <<s[1]>> \o unquote(Tail(s))

\* quote_plus(c) for one character: unreserved characters are kept, a space
\* becomes '+', anything else is %XX.
quote_plus_char(c) ==
    IF isalpha(c) \/ isdigit(c) \/ c \in {"_", ".", "-", "~"} THEN <<c>>
    ELSE IF c = " " THEN <<"+">>
    ELSE <<"%", hexdigits[(ord[c] \div 16) + 1],
                hexdigits[(ord[c] % 16) + 1]>>

RECURSIVE quote_plus(_)
quote_plus(s) ==
    IF s = << >> THEN << >> ELSE quote_plus_char(s[1]) \o quote_plus(Tail(s))

\* One field of parse_qsl: << >> when the field is skipped, else <<(name, value)>>.
parse_qsl_field(name_value, keep_blank_values) ==
    LET eq    == find(name_value, "=", 1)
        name  == IF eq = 0 THEN name_value ELSE SubSeq(name_value, 1, eq - 1)
        value == IF eq = 0 THEN << >> ELSE SubSeq(name_value, eq + 1, Len(name_value))
    IN  IF name_value = << >> THEN << >>
        ELSE IF eq = 0 /\ ~keep_blank_values THEN << >>
        ELSE IF value # << >> \/ keep_blank_values
             THEN << <<unquote(replace(name, <<"+">>, <<" ">>)),
                       unquote(replace(value, <<"+">>, <<" ">>))>> >>
             ELSE << >>

RECURSIVE parse_qsl_fields(_, _)
parse_qsl_fields(fields, keep_blank_values) ==
    IF fields = << >> THEN << >>
    ELSE parse_qsl_field(Head(fields), keep_blank_values)
         \o parse_qsl_fields(Tail(fields), keep_blank_values)

\* parse_qsl(qs, keep_blank_values): the (name, value) pairs in order.
parse_qsl(qs, keep_blank_values) ==
    IF qs = << >> THEN << >> ELSE parse_qsl_fields(split(qs, "&"), keep_blank_values)

RECURSIVE parse_qs_collect(_, _)
\* The dict parse_qs builds: a sequence of (name, list of values) in the
\* order the names first appear (a Python dict keeps insertion order).
parse_qs_collect(pairs, parsed_result) ==
    IF pairs = << >> THEN parsed_result
    ELSE LET name  == Head(pairs)[1]
             value == Head(pairs)[2]
             at    == {k \in 1..Len(parsed_result) : parsed_result[k][1] = name}
         IN  parse_qs_collect(
                 Tail(pairs),
                 IF at = {} THEN Append(parsed_result, <<name, <<value>>>>)
                 ELSE [parsed_result EXCEPT ![min(at)][2] = Append(@, value)])

parse_qs(qs, keep_blank_values) ==
    parse_qs_collect(parse_qsl(qs, keep_blank_values), << >>)

RECURSIVE sorted_items(_)
\* sorted(d.items()): by name (names are unique in a dict).
sorted_items(items) ==
    IF items = << >> THEN << >>
    ELSE LET m == CHOOSE k \in 1..Len(items) :
                      \A j \in 1..Len(items) : j # k => str_lt(items[k][1], items[j][1])
         IN  <<items[m]>>
             \o sorted_items(SubSeq(items, 1, m - 1) \o SubSeq(items, m + 1, Len(items)))

RECURSIVE urlencode_values(_, _)
urlencode_values(k, values) ==
    IF values = << >> THEN << >>
    ELSE << quote_plus(k) \o <<"=">> \o quote_plus(Head(values)) >>
         \o urlencode_values(k, Tail(values))

RECURSIVE urlencode_fields(_)
urlencode_fields(items) ==
    IF items = << >> THEN << >>
    ELSE urlencode_values(Head(items)[1], Head(items)[2]) \o urlencode_fields(Tail(items))

RECURSIVE join(_, _)
\* sep.join(parts)
join(sep, parts) ==
    IF parts = << >> THEN << >>
    ELSE IF Len(parts) = 1 THEN Head(parts)
    ELSE Head(parts) \o sep \o join(sep, Tail(parts))

\* urlencode(items, doseq=True)
urlencode(items) == join(<<"&">>, urlencode_fields(items))

-----------------------------------------------------------------------------
(* URLNormalizer (normalize.py).                                           *)

\* self.remove_params
remove_params ==
    { <<"u","t","m","_","s","o","u","r","c","e">>,
      <<"u","t","m","_","m","e","d","i","u","m">>,
      <<"u","t","m","_","c","a","m","p","a","i","g","n">>,
      <<"u","t","m","_","t","e","r","m">>,
      <<"u","t","m","_","c","o","n","t","e","n","t">>,
      <<"f","b","c","l","i","d">>,
      <<"g","c","l","i","d">>,
      <<"r","e","f">>,
      <<"s","o","u","r","c","e">> }

\* self.domain_variations, in the order the dict declares them.
domain_variations ==
    << << <<"w","w","w",".">>, << >> >>,
       << <<".","m",".">>, <<".">> >>,
       << <<"-","m","o","b","i","l","e",".">>, <<".">> >> >>

RECURSIVE apply_domain_variations(_, _)
\* for variation, replacement in self.domain_variations.items(): one
\* replace() each; a later one sees the result of the earlier ones.
apply_domain_variations(netloc, variations) ==
    IF variations = << >> THEN netloc
    ELSE apply_domain_variations(
             replace(netloc, Head(variations)[1], Head(variations)[2]),
             Tail(variations))

\* URLNormalizer.normalize(url): the normalized str, or None when urlparse
\* raises (the except branch).
normalize(url) ==
    LET parsed == urlparse(url)
        netloc == apply_domain_variations(
                      re_sub_at_end(<<":","4","4","3">>,
                          re_sub_at_end(<<":","8","0">>, lower(parsed.netloc))),
                      domain_variations)
        stripped == rstrip(lower(parsed.path), "/")
        path   == IF stripped = << >> THEN <<"/">> ELSE stripped
        query_params == parse_qs(parsed.query, FALSE)
        filtered_params == SelectSeq(query_params, LAMBDA kv : kv[1] \notin remove_params)
        new_query == urlencode(sorted_items(filtered_params))
    IN  IF parsed.raises THEN None
        ELSE urlunparse(parsed.scheme, netloc, path, new_query)

-----------------------------------------------------------------------------
(* URLDeduplicator's second normalization pass (deduplication.py).         *)

\* tracking_params of _normalize_query_parameters
tracking_params ==
    { <<"u","t","m","_","s","o","u","r","c","e">>,
      <<"u","t","m","_","m","e","d","i","u","m">>,
      <<"u","t","m","_","c","a","m","p","a","i","g","n">>,
      <<"f","b","c","l","i","d">>,
      <<"r","e","f">> }

\* URLDeduplicator._normalize_query_parameters(url), for a url that urlparse
\* accepts.
normalize_query_parameters(url) ==
    LET parsed == urlparse(url)
        query_params == SelectSeq(parse_qs(parsed.query, TRUE),
                                  LAMBDA kv : kv[1] \notin tracking_params)
        base == parsed.scheme \o <<":", "/", "/">> \o parsed.netloc \o parsed.path
    IN  IF query_params # << >>
        THEN base \o <<"?">> \o urlencode(sorted_items(query_params))
        ELSE base

-----------------------------------------------------------------------------
(* The raw URLs submitted to the deduplicator.                             *)

\* 'https://example.com/page': the test's url1
url1 ==
    <<"h","t","t","p","s",":","/","/","e","x","a","m","p","l","e",".","c","o","m","/","p","a","g","e">>

\* 'https://www.example.com/page/': the test's url2: www. prefix and trailing slash
url2 ==
    <<"h","t","t","p","s",":","/","/","w","w","w",".","e","x","a","m","p","l","e",".","c","o","m","/","p","a","g","e","/">>

\* 'https://EXAMPLE.com/page?utm_source=x': upper-case host and a tracking parameter
url_case_tracking ==
    <<"h","t","t","p","s",":","/","/","E","X","A","M","P","L","E",".","c","o","m","/","p","a","g","e","?","u","t","m","_","s","o","u","r","c","e","=","x">>

\* 'https://e.com/p?b=2&a=1': query parameters out of order
url_query_ba ==
    <<"h","t","t","p","s",":","/","/","e",".","c","o","m","/","p","?","b","=","2","&","a","=","1">>

\* 'https://e.com/p?a=1&b=2': the same parameters in order
url_query_ab ==
    <<"h","t","t","p","s",":","/","/","e",".","c","o","m","/","p","?","a","=","1","&","b","=","2">>

\* '': the empty string
url_empty ==
    << >>

\* 'not a url': no scheme, no host
url_words ==
    <<"n","o","t"," ","a"," ","u","r","l">>

\* '/path/only': a path only
url_path_only ==
    <<"/","p","a","t","h","/","o","n","l","y">>

\* 'http://[': urlparse raises ValueError("Invalid IPv6 URL")
url_bad_ipv6 ==
    <<"h","t","t","p",":","/","/","[">>


RawURLs ==
    {url1, url2, url_case_tracking, url_query_ba, url_query_ab,
     url_empty, url_words, url_path_only, url_bad_ipv6}

-----------------------------------------------------------------------------
(* Bounds of the model.                                                    *)

\* max_cache_size ranges over 1..MaxCacheSize.
MaxCacheSize == 2

\* At most MaxCalls calls of is_duplicate are made on one instance.
MaxCalls == 3

\* At most MaxClears calls of clear_cache are made on one instance.
MaxClears == 1

\* At most MaxFaults library calls raise in one run.
MaxFaults == 1

-----------------------------------------------------------------------------
(* pybloom_live.ScalableBloomFilter as deduplication.py uses it: add and   *)
(* membership, no false negatives, false positives possible. The filter is *)
(* the set of its bits that are set; a key sets the bits its two hash      *)
(* functions name.                                                         *)

RECURSIVE weighted_sum(_, _)
weighted_sum(s, w) ==
    IF s = << >> THEN 0 ELSE w * ord[Head(s)] + weighted_sum(Tail(s), w + 1)

\* The bit array of the filter.
BloomBits == 0..3

bloom_hashes(key) ==
    {Len(key) % Cardinality(BloomBits), weighted_sum(key, 1) % Cardinality(BloomBits)}

-----------------------------------------------------------------------------
(* normalize, the second pass and the filter's hashes are pure functions   *)
(* of the url: memo holds their values on the raw URLs, computed once, in  *)
(* Init, and never changed.                                                *)

VARIABLE memo

\* What is_duplicate computes from the final normalized_url.
PureCanonical(normalized, normalized_url) ==
    [normalized     |-> normalized,
     raises         |-> FALSE,
     normalized_url |-> normalized_url,
     bloom_hashes   |-> bloom_hashes(normalized_url)]

\* What is_duplicate computes from the result of normalize.
PureNormalized(normalized) ==
    IF normalized = None \/ normalized = << >>
    THEN [normalized |-> normalized, raises |-> FALSE,
          normalized_url |-> None, bloom_hashes |-> {}]
    ELSE IF urlparse(normalized).raises
    THEN [normalized |-> normalized, raises |-> TRUE,
          normalized_url |-> None, bloom_hashes |-> {}]
    ELSE PureCanonical(normalized, normalize_query_parameters(normalized))

\* What is_duplicate computes from url before it touches the instance.
Pure(url) == PureNormalized(normalize(url))

\* self.url_normalizer.normalize(url)
url_normalizer_normalize(url) == memo[url].normalized

\* normalized_url = self._normalize_query_parameters(normalized_url), with
\* raises for the ValueError of its urlparse.
second_pass(url) ==
    [raises |-> memo[url].raises, normalized_url |-> memo[url].normalized_url]

\* The bits the filter reads and sets for the normalized_url of url.
bloom_positions(url) == memo[url].bloom_hashes

\* normalized_url in self.bloom_filter, for the normalized_url of url
bloom_contains(bloom_filter, url) == bloom_positions(url) \subseteq bloom_filter

\* self.bloom_filter.add(normalized_url), for the normalized_url of url
bloom_add(bloom_filter, url) == bloom_filter \cup bloom_positions(url)

-----------------------------------------------------------------------------
(* URLDeduplicator (deduplication.py). An instance is a record of its      *)
(* fields; url_frequency is the dict as the sequence of its (key, count)   *)
(* items in insertion order, which the stable sort of _evict_cache reads.  *)

\* The places of is_duplicate where a library call can raise: the second
\* normalisation pass, mmh3.hash128, the filter's membership test and add,
\* the set's add, and the sort of an eviction that takes place. An exception
\* inside URLNormalizer.normalize is not among them: normalize catches it
\* itself and returns None.
Faults == {"normalize_query_parameters", "compute_url_hash", "bloom_contains",
           "bloom_add", "seen_add", "evict_cache"}

\* str(e) of the exception raised at a place.
error_message(fault) ==
    CASE fault = "normalize_query_parameters" -> "Error: parse_qs failed"
      [] fault = "compute_url_hash" -> "Error: hash128 failed"
      [] fault = "bloom_contains"   -> "Error: filter lookup failed"
      [] fault = "bloom_add"        -> "Error: filter add failed"
      [] fault = "seen_add"         -> "Error: set add failed"
      [] fault = "evict_cache"      -> "Error: sort failed"
      [] fault = "urlparse"         -> "Error: Invalid IPv6 URL"

ErrorReasons == {error_message(f) : f \in Faults \cup {"urlparse"}}

\* URLDeduplicator._initialize_bloom_filter: a fresh filter, or exact-only
\* mode when pybloom_live cannot be imported.
initialize_bloom_filter(self, importable) ==
    IF importable THEN [self EXCEPT !.bloom_filter = {}]
    ELSE [self EXCEPT !.use_bloom_filter = FALSE]

\* URLDeduplicator.__init__
URLDeduplicator(max_cache_size, use_bloom_filter, importable) ==
    LET self == [seen_urls        |-> {},
                 url_frequency    |-> << >>,
                 max_cache_size   |-> max_cache_size,
                 stats            |-> [total_urls |-> 0, duplicates |-> 0,
                                       unique_urls |-> 0, cache_evictions |-> 0],
                 use_bloom_filter |-> use_bloom_filter,
                 bloom_filter     |-> {}]
    IN  IF use_bloom_filter THEN initialize_bloom_filter(self, importable) ELSE self

\* A hash of the first characters only: distinct canonical strings collide.
compute_url_hash_of_prefix(url) == <<"mmh3", SubSeq(url, 1, min({Len(url), 8}))>>

\* URLDeduplicator._compute_url_hash: hex(mmh3.hash128(url))[2:]. The 128-bit
\* hash is taken to be free of collisions on the URLs of the model.
compute_url_hash(url) == <<"mmh3", url>>

\* len(self.seen_urls) >= self.max_cache_size
should_evict_cache(self) == Cardinality(self.seen_urls) >= self.max_cache_size

\* int(self.max_cache_size * 0.75)
keep_count(self) == (self.max_cache_size * 3) \div 4

\* The place of item i in a sort by ascending frequency.
sorted_rank_ascending(url_frequency, i) ==
    1 + Cardinality({j \in 1..Len(url_frequency) :
                        \/ url_frequency[j][2] < url_frequency[i][2]
                        \/ (url_frequency[j][2] = url_frequency[i][2] /\ j < i)})

\* The 1-based place of item i of url_frequency in
\* sorted(items, key=frequency, reverse=True): a stable sort, so items of
\* equal frequency keep their insertion order.
sorted_rank(url_frequency, i) ==
    1 + Cardinality({j \in 1..Len(url_frequency) :
                        \/ url_frequency[j][2] > url_frequency[i][2]
                        \/ (url_frequency[j][2] = url_frequency[i][2] /\ j < i)})

\* An eviction that also starts the filter afresh.
evict_cache_resetting_filter(self) ==
    IF ~should_evict_cache(self) THEN self
    ELSE [self EXCEPT
             !.seen_urls = {},
             !.url_frequency = << >>,
             !.bloom_filter = {},
             !.stats.cache_evictions = @ + 1]

\* An eviction that leaves url_frequency as it is.
evict_cache_keeping_frequencies(self) ==
    IF ~should_evict_cache(self) THEN self
    ELSE [self EXCEPT
             !.seen_urls =
                 {self.url_frequency[i][1] : i \in
                     {i \in 1..Len(self.url_frequency) :
                         sorted_rank(self.url_frequency, i) <= keep_count(self)}},
             !.stats.cache_evictions = @ + 1]

\* URLDeduplicator._evict_cache
evict_cache(self) ==
    IF ~should_evict_cache(self) THEN self
    ELSE LET urls_to_keep ==
                 {self.url_frequency[i][1] : i \in
                     {i \in 1..Len(self.url_frequency) :
                         sorted_rank(self.url_frequency, i) <= keep_count(self)}}
         IN  [self EXCEPT
                 !.seen_urls = urls_to_keep,
                 !.url_frequency = SelectSeq(@, LAMBDA item : item[1] \in urls_to_keep),
                 !.stats.cache_evictions = @ + 1]

\* self.url_frequency.get(key, 0)
frequency_get(url_frequency, key) ==
    LET at == {i \in 1..Len(url_frequency) : url_frequency[i][1] = key}
    IN  IF at = {} THEN 0 ELSE url_frequency[min(at)][2]

\* An assignment that appends a new item even when the dict has the key.
frequency_set_appending(url_frequency, key, value) ==
    Append(url_frequency, <<key, value>>)

\* self.url_frequency[key] = value: in place for a key of the dict, appended
\* for a new one.
frequency_set(url_frequency, key, value) ==
    LET at == {i \in 1..Len(url_frequency) : url_frequency[i][1] = key}
    IN  IF at = {} THEN Append(url_frequency, <<key, value>>)
        ELSE [url_frequency EXCEPT ![min(at)][2] = value]

DeduplicationResult(is_duplicate, hash_value, normalized_url, reason) ==
    [is_duplicate   |-> is_duplicate,
     hash_value     |-> hash_value,
     normalized_url |-> normalized_url,
     reason         |-> reason]

\* An except branch that fails open: the URL is reported as new.
is_duplicate_except_fail_open(self, url, fault) ==
    [self   |-> self,
     raised |-> fault,
     result |-> DeduplicationResult(FALSE, << >>, url, error_message(fault))]

\* The except branch of is_duplicate: what was mutated before the exception
\* stays mutated.
is_duplicate_except(self, url, fault) ==
    [self   |-> self,
     raised |-> fault,
     result |-> DeduplicationResult(TRUE, << >>, url, error_message(fault))]

\* The filter's fast path of is_duplicate (lines 130-139), for a canonical
\* string the filter does not hold.
is_duplicate_fast_path(self, url, normalized_url, url_hash, fault) ==
    IF fault = "bloom_add" THEN is_duplicate_except(self, url, fault)
    ELSE LET added == [self EXCEPT !.bloom_filter = bloom_add(@, url)]
         IN  IF fault = "seen_add" THEN is_duplicate_except(added, url, fault)
             ELSE [self   |-> [added EXCEPT
                                  !.seen_urls = @ \cup {url_hash},
                                  !.url_frequency = frequency_set(@, url_hash, 1),
                                  !.stats.unique_urls = @ + 1],
                   raised |-> "none",
                   result |-> DeduplicationResult(FALSE, url_hash, normalized_url, "None")]

\* The exact check of is_duplicate (lines 141-164).
is_duplicate_exact(self, url, normalized_url, url_hash, fault) ==
    IF url_hash \in self.seen_urls
    THEN [self   |-> [self EXCEPT
                         !.url_frequency =
                             frequency_set(@, url_hash, frequency_get(@, url_hash) + 1),
                         !.stats.duplicates = @ + 1],
          raised |-> "none",
          result |-> DeduplicationResult(TRUE, url_hash, normalized_url, "Exact duplicate")]
    ELSE IF fault = "seen_add" THEN is_duplicate_except(self, url, fault)
    ELSE LET inserted == [self EXCEPT
                             !.seen_urls = @ \cup {url_hash},
                             !.url_frequency = frequency_set(@, url_hash, 1),
                             !.stats.unique_urls = @ + 1]
         IN  IF fault = "evict_cache" /\ should_evict_cache(inserted)
             THEN is_duplicate_except(inserted, url, fault)
             ELSE [self   |-> evict_cache(inserted),
                   raised |-> "none",
                   result |-> DeduplicationResult(FALSE, url_hash, normalized_url, "None")]

\* A rejection of a malformed url that counts it among the duplicates.
is_duplicate_invalid_counted(self, url) ==
    [self   |-> [self EXCEPT !.stats.duplicates = @ + 1],
     raised |-> "none",
     result |-> DeduplicationResult(TRUE, << >>, url, "Invalid URL format")]

\* The return of is_duplicate for a url that normalize gave None or '' for
\* (lines 114-120).
is_duplicate_invalid(self, url) ==
    [self   |-> self,
     raised |-> "none",
     result |-> DeduplicationResult(TRUE, << >>, url, "Invalid URL format")]

\* URLDeduplicator.is_duplicate(url), with the library call at `fault`
\* raising if the call reaches it ("none": nothing raises). Gives the
\* instance after the call, the DeduplicationResult returned and the place
\* that raised.
is_duplicate(self0, url, fault) ==
    LET self       == [self0 EXCEPT !.stats.total_urls = @ + 1]
        normalized == url_normalizer_normalize(url)
    IN  IF normalized = None \/ normalized = << >>
        THEN is_duplicate_invalid(self, url)
        ELSE IF second_pass(url).raises
             THEN is_duplicate_except(self, url, "urlparse")
        ELSE IF fault = "normalize_query_parameters"
             THEN is_duplicate_except(self, url, fault)
        ELSE LET normalized_url == second_pass(url).normalized_url
                 url_hash       == compute_url_hash(normalized_url)
             IN  IF fault = "compute_url_hash" THEN is_duplicate_except(self, url, fault)
                 ELSE IF self.use_bloom_filter /\ fault = "bloom_contains"
                      THEN is_duplicate_except(self, url, fault)
                 ELSE IF /\ self.use_bloom_filter
                         /\ ~bloom_contains(self.bloom_filter, url)
                      THEN is_duplicate_fast_path(self, url, normalized_url, url_hash, fault)
                 ELSE is_duplicate_exact(self, url, normalized_url, url_hash, fault)

\* [self.is_duplicate(url) for url in urls], from the instance as the
\* comprehension has left it so far and the results it has collected.
RECURSIVE add_batch_from(_, _, _)
add_batch_from(self, urls, results) ==
    IF urls = << >> THEN [self |-> self, results |-> results]
    ELSE LET out == is_duplicate(self, Head(urls), "none")
         IN  add_batch_from(out.self, Tail(urls), Append(results, out.result))

\* URLDeduplicator.add_batch
add_batch(self, urls) == add_batch_from(self, urls, << >>)

\* A clear_cache that leaves seen_urls and the filter as they are.
clear_cache_keeping_seen_urls(self, importable) ==
    [self EXCEPT !.url_frequency = << >>, !.stats.cache_evictions = @ + 1]

\* A clear_cache that starts the filter afresh and keeps the cache.
clear_cache_of_filter_only(self, importable) ==
    LET reset == IF self.use_bloom_filter
                 THEN initialize_bloom_filter(self, importable) ELSE self
    IN  [reset EXCEPT !.stats.cache_evictions = @ + 1]

\* URLDeduplicator.clear_cache
clear_cache(self, importable) ==
    LET cleared == [self EXCEPT !.seen_urls = {}, !.url_frequency = << >>]
        reset   == IF self.use_bloom_filter
                   THEN initialize_bloom_filter(cleared, importable) ELSE cleared
    IN  [reset EXCEPT !.stats.cache_evictions = @ + 1]

\* URLDeduplicator.get_stats, with timestamp what
\* datetime.utcnow().isoformat() gives.
get_stats(self, timestamp) ==
    [total_urls      |-> self.stats.total_urls,
     duplicates      |-> self.stats.duplicates,
     unique_urls     |-> self.stats.unique_urls,
     cache_evictions |-> self.stats.cache_evictions,
     cache_size      |-> Cardinality(self.seen_urls),
     timestamp       |-> timestamp]

\* The final canonical string is_duplicate works on, for a url that
\* normalizes.
canonical(url) == second_pass(url).normalized_url

\* not (not normalized_url): normalize gave a non-empty str.
normalizable(url) ==
    url_normalizer_normalize(url) # None /\ url_normalizer_normalize(url) # << >>

-----------------------------------------------------------------------------
(* State.                                                                  *)

VARIABLES
    dedup,        \* the URLDeduplicator instance
    pybloom_live, \* whether `from pybloom_live import ...` succeeds
    call,         \* the last call made on dedup: operation, url, place that raised,
                  \* and for get_stats the dict it returned
    result,       \* the DeduplicationResult of the last is_duplicate
    submitted,    \* the canonical strings submitted to is_duplicate so far
    clears,       \* the number of clear_cache calls so far
    faults,       \* the number of library calls that raised so far
    twin,         \* a second instance, in exact-only mode, given the same calls
    twin_result,  \* the DeduplicationResult of the twin's last is_duplicate
    frame,        \* for each thread calling dedup.is_duplicate: its position
                  \* and local variables
    batch,        \* the last add_batch on dedup: its results, and the urls the
                  \* twin has still to check one by one
    input,        \* the raw URL last given to URLNormalizer.normalize, with a
                  \* variant of it
    output,       \* what normalize returned for them
    validation    \* the last call of URLValidator.is_valid_url: its url and its
                  \* URLValidationResult

vars == <<memo, dedup, pybloom_live, call, result, submitted, clears, faults,
          twin, twin_result, frame, batch, input, output,
                   validation>>

\* The threads that call is_duplicate on the one instance.
Threads == {"t1", "t2"}

NoResult == DeduplicationResult(FALSE, << >>, << >>, "no call yet")

NoCall == [op |-> "none", url |-> << >>, raised |-> "none"]

IdleFrame ==
    [pc |-> "idle", url |-> << >>, normalized_url |-> << >>, url_hash |-> << >>,
     result |-> NoResult]

NoBatch == [urls |-> << >>, results |-> << >>, pending |-> << >>, twin_results |-> << >>]

NoInput == [url |-> << >>, variant |-> << >>, kind |-> [name |-> "none", param |-> << >>]]

\* url is about to be given to URLValidator.is_valid_url.
NotValidated(url) == [url |-> url, result |-> [is_valid |-> FALSE, reason |-> "no call yet"]]

NoValidation == NotValidated(<< >>)

NoOutput == [normalized |-> << >>, variant |-> << >>, again |-> << >>,
             canonical |-> << >>, raises |-> FALSE, scheme |-> << >>, netloc |-> << >>]

\* The state right after the construction of instance d, and of a twin tw,
\* with raw the URL that will be given to URLNormalizer.normalize and unchecked the
\* one that will be given to URLValidator.is_valid_url.
ConstructedWithInputs(d, tw, raw, unchecked) ==
    /\ memo = [url \in RawURLs |-> Pure(url)]
    /\ dedup = d
    /\ call = NoCall
    /\ result = NoResult
    /\ submitted = {}
    /\ clears = 0
    /\ faults = 0
    /\ twin = tw
    /\ twin_result = NoResult
    /\ frame = [t \in Threads |-> IdleFrame]
    /\ batch = NoBatch
    /\ input = raw
    /\ output = NoOutput
    /\ validation = NotValidated(unchecked)

\* The state right after the construction of instance d, and of a twin tw,
\* with raw the URL that will be given to URLNormalizer.normalize.
ConstructedWithInput(d, tw, raw) == ConstructedWithInputs(d, tw, raw, << >>)

\* The state right after the construction of instance d, and of a twin tw.
Constructed(d, tw) == ConstructedWithInput(d, tw, NoInput)

Init ==
    /\ pybloom_live \in BOOLEAN
    /\ \E max_cache_size \in 1..MaxCacheSize, use_bloom_filter \in BOOLEAN :
           Constructed(URLDeduplicator(max_cache_size, use_bloom_filter, pybloom_live),
                       URLDeduplicator(max_cache_size, FALSE, pybloom_live))

\* dedup.is_duplicate(url), the library call at `fault` raising.
IsDuplicateRaising(url, fault) ==
    /\ dedup.stats.total_urls < MaxCalls
    /\ LET out == is_duplicate(dedup, url, fault)
       IN  /\ out.raised = fault \/ (fault = "none" /\ out.raised = "urlparse")
           /\ dedup' = out.self
           /\ result' = out.result
           /\ call' = [op |-> "is_duplicate", url |-> url, raised |-> out.raised]
           /\ submitted' = IF normalizable(url) /\ ~second_pass(url).raises
                           THEN submitted \cup {canonical(url)} ELSE submitted
    /\ UNCHANGED <<memo, pybloom_live, clears, twin, twin_result, frame, batch,
                   input, output,
                   validation>>

\* dedup.is_duplicate(url), no library call raising.
IsDuplicate(url) ==
    /\ IsDuplicateRaising(url, "none")
    /\ UNCHANGED faults

\* dedup.is_duplicate(url) with one library call raising in it.
IsDuplicateFault(url, fault) ==
    /\ faults < MaxFaults
    /\ IsDuplicateRaising(url, fault)
    /\ faults' = faults + 1

\* dedup.clear_cache()
ClearCache ==
    /\ clears < MaxClears
    /\ dedup' = clear_cache(dedup, pybloom_live)
    /\ call' = [op |-> "clear_cache", url |-> << >>, raised |-> "none"]
    /\ clears' = clears + 1
    /\ UNCHANGED <<memo, pybloom_live, result, submitted, faults, twin, twin_result,
                   frame, batch, input, output,
                   validation>>

Next ==
    \/ \E url \in RawURLs : IsDuplicate(url)
    \/ ClearCache

Spec == Init /\ [][Next]_vars

\* The same instance with library calls that may raise.
FaultNext ==
    \/ \E url \in RawURLs : IsDuplicate(url)
    \/ \E url \in RawURLs, fault \in Faults : IsDuplicateFault(url, fault)

FaultSpec == Init /\ [][FaultNext]_vars

-----------------------------------------------------------------------------
(* Two instances of the same max_cache_size, dedup with the filter and     *)
(* twin in exact-only mode, given the same sequence of is_duplicate calls. *)

PairInit ==
    /\ pybloom_live = TRUE
    /\ \E max_cache_size \in 1..MaxCacheSize :
           Constructed(URLDeduplicator(max_cache_size, TRUE, pybloom_live),
                       URLDeduplicator(max_cache_size, FALSE, pybloom_live))

\* dedup.is_duplicate(url) and twin.is_duplicate(url)
IsDuplicateBoth(url) ==
    /\ IsDuplicateRaising(url, "none")!1
    /\ dedup' = is_duplicate(dedup, url, "none").self
    /\ result' = is_duplicate(dedup, url, "none").result
    /\ twin' = is_duplicate(twin, url, "none").self
    /\ twin_result' = is_duplicate(twin, url, "none").result
    /\ call' = [op |-> "is_duplicate", url |-> url, raised |-> "none"]
    /\ UNCHANGED <<memo, pybloom_live, submitted, clears, faults, frame, batch,
                   input, output,
                   validation>>

PairNext == \E url \in RawURLs : IsDuplicateBoth(url)

PairSpec == PairInit /\ [][PairNext]_vars

-----------------------------------------------------------------------------
(* The instance in an environment where pybloom_live can stop being        *)
(* importable after the construction: the import inside                    *)
(* _initialize_bloom_filter is executed again by every clear_cache.        *)

\* pybloom_live is no longer importable.
PackageRemoved ==
    /\ pybloom_live
    /\ pybloom_live' = FALSE
    /\ UNCHANGED <<memo, dedup, call, result, submitted, clears, faults, twin,
                   twin_result, frame, batch, input, output,
                   validation>>

DegradeNext ==
    \/ \E url \in RawURLs : IsDuplicate(url)
    \/ ClearCache
    \/ PackageRemoved

DegradeSpec == Init /\ [][DegradeNext]_vars

-----------------------------------------------------------------------------
(* add_batch on dedup, and the same urls given one by one to is_duplicate  *)
(* on a twin constructed with the same arguments.                          *)

BatchInit ==
    /\ pybloom_live \in BOOLEAN
    /\ \E max_cache_size \in 1..MaxCacheSize, use_bloom_filter \in BOOLEAN :
           Constructed(URLDeduplicator(max_cache_size, use_bloom_filter, pybloom_live),
                       URLDeduplicator(max_cache_size, use_bloom_filter, pybloom_live))

\* The lists of at most n raw URLs.
Batches(n) == UNION {[1..k -> RawURLs] : k \in 0..n}

\* dedup.add_batch(urls)
AddBatch(urls) ==
    /\ batch.pending = << >>
    /\ dedup.stats.total_urls + Len(urls) <= MaxCalls
    /\ dedup' = add_batch(dedup, urls).self
    /\ batch' = [urls         |-> urls,
                 results      |-> add_batch(dedup, urls).results,
                 pending      |-> urls,
                 twin_results |-> << >>]
    /\ call' = [op |-> "add_batch", url |-> << >>, raised |-> "none"]
    /\ UNCHANGED <<memo, pybloom_live, result, submitted, clears, faults, twin,
                   twin_result, frame, input, output,
                   validation>>

\* twin.is_duplicate(url) for the next url of the batch.
TwinIsDuplicate ==
    /\ batch.pending # << >>
    /\ twin' = is_duplicate(twin, Head(batch.pending), "none").self
    /\ twin_result' = is_duplicate(twin, Head(batch.pending), "none").result
    /\ batch' = [batch EXCEPT
                     !.pending = Tail(@),
                     !.twin_results =
                         Append(@, is_duplicate(twin, Head(batch.pending), "none").result)]
    /\ UNCHANGED <<memo, dedup, pybloom_live, call, result, submitted, clears, faults,
                   frame, input, output,
                   validation>>

BatchNext ==
    \/ \E urls \in Batches(MaxCalls) : AddBatch(urls)
    \/ TwinIsDuplicate

BatchSpec == BatchInit /\ [][BatchNext]_vars

-----------------------------------------------------------------------------
(* The operations that change the cache in one specification:             *)
(* is_duplicate, add_batch and clear_cache; and the instance with library  *)
(* calls that may raise, clear_cache and get_stats.                        *)

\* The canonical strings that urls submit.
submitted_by(urls) ==
    {canonical(urls[i]) : i \in {j \in 1..Len(urls) :
                                    normalizable(urls[j]) /\ ~second_pass(urls[j]).raises}}

\* dedup.add_batch(urls)
AddBatchCall(urls) ==
    /\ dedup.stats.total_urls + Len(urls) <= MaxCalls
    /\ dedup' = add_batch(dedup, urls).self
    /\ batch' = [NoBatch EXCEPT !.urls = urls, !.results = add_batch(dedup, urls).results]
    /\ call' = [op |-> "add_batch", url |-> << >>, raised |-> "none"]
    /\ submitted' = submitted \cup submitted_by(urls)
    /\ UNCHANGED <<memo, pybloom_live, result, clears, faults, twin, twin_result,
                   frame, input, output, validation>>

\* What datetime.utcnow().isoformat() can give.
Timestamps == {"2024-01-01T00:00:00", "2024-01-01T00:00:01"}

\* dedup.get_stats()
GetStats ==
    /\ \E timestamp \in Timestamps :
           call' = [op |-> "get_stats", url |-> << >>, raised |-> "none",
                    returned |-> get_stats(dedup, timestamp)]
    /\ UNCHANGED <<memo, dedup, pybloom_live, result, submitted, clears, faults, twin,
                   twin_result, frame, batch, input, output, validation>>

\* The lists of at most n of the test's url1, the out-of-order query and
\* the url urlparse raises on.
SmallBatches(n) == UNION {[1..k -> {url1, url_query_ba, url_bad_ipv6}] : k \in 0..n}

OperationsNext ==
    \/ \E url \in RawURLs : IsDuplicate(url)
    \/ \E urls \in SmallBatches(MaxCalls) : AddBatchCall(urls)
    \/ ClearCache

OperationsSpec == Init /\ [][OperationsNext]_vars

StatsNext ==
    \/ \E url \in RawURLs : IsDuplicate(url)
    \/ \E url \in RawURLs, fault \in Faults : IsDuplicateFault(url, fault)
    \/ ClearCache
    \/ GetStats

StatsSpec == Init /\ [][StatsNext]_vars

-----------------------------------------------------------------------------
(* Threads calling is_duplicate on one instance. The class takes no lock;  *)
(* a thread can be preempted between any two statements, so every          *)
(* statement of is_duplicate that reads or writes the instance is one      *)
(* step. Each thread makes one call.                                       *)

\* The raw URLs the threads submit.
ThreadURLs == {url1, url2, url_query_ba, url_bad_ipv6}

ThreadInit ==
    /\ pybloom_live = TRUE
    /\ \E use_bloom_filter \in BOOLEAN :
           Constructed(URLDeduplicator(MaxCacheSize, use_bloom_filter, pybloom_live),
                       URLDeduplicator(MaxCacheSize, FALSE, pybloom_live))

ThreadFrame == <<memo, pybloom_live, call, result, submitted, clears, faults,
                 twin, twin_result, batch, input, output,
                   validation>>

\* The thread goes to pc.
Goto(t, pc) == frame' = [frame EXCEPT ![t].pc = pc]

\* The thread returns r.
Return(t, r) == frame' = [frame EXCEPT ![t].pc = "done", ![t].result = r]

\* Lines 110-126: total_urls += 1, normalize, second pass, hash.
Enter(t, url) ==
    /\ frame[t].pc = "idle"
    /\ dedup' = [dedup EXCEPT !.stats.total_urls = @ + 1]
    /\ IF ~normalizable(url)
       THEN Return(t, DeduplicationResult(TRUE, << >>, url, "Invalid URL format"))
       ELSE frame' = [frame EXCEPT
                         ![t].pc = "filter_test",
                         ![t].url = url,
                         ![t].normalized_url = canonical(url),
                         ![t].url_hash = compute_url_hash(canonical(url))]
    /\ UNCHANGED ThreadFrame

\* Lines 129-130: if self.use_bloom_filter: if normalized_url not in
\* self.bloom_filter
FilterTest(t) ==
    /\ frame[t].pc = "filter_test"
    /\ IF dedup.use_bloom_filter /\ ~bloom_contains(dedup.bloom_filter, frame[t].url)
       THEN Goto(t, "filter_add")
       ELSE Goto(t, "seen_test")
    /\ UNCHANGED <<dedup, ThreadFrame>>

\* Line 131: self.bloom_filter.add(normalized_url)
FilterAdd(t) ==
    /\ frame[t].pc = "filter_add"
    /\ dedup' = [dedup EXCEPT !.bloom_filter = bloom_add(@, frame[t].url)]
    /\ Goto(t, "fast_seen_add")
    /\ UNCHANGED ThreadFrame

\* Line 132: self.seen_urls.add(url_hash)
FastSeenAdd(t) ==
    /\ frame[t].pc = "fast_seen_add"
    /\ dedup' = [dedup EXCEPT !.seen_urls = @ \cup {frame[t].url_hash}]
    /\ Goto(t, "fast_frequency")
    /\ UNCHANGED ThreadFrame

\* Line 133: self.url_frequency[url_hash] = 1
FastFrequency(t) ==
    /\ frame[t].pc = "fast_frequency"
    /\ dedup' = [dedup EXCEPT !.url_frequency = frequency_set(@, frame[t].url_hash, 1)]
    /\ Goto(t, "fast_unique")
    /\ UNCHANGED ThreadFrame

\* Lines 134-139: self.stats['unique_urls'] += 1; return
FastUnique(t) ==
    /\ frame[t].pc = "fast_unique"
    /\ dedup' = [dedup EXCEPT !.stats.unique_urls = @ + 1]
    /\ Return(t, DeduplicationResult(FALSE, frame[t].url_hash,
                                     frame[t].normalized_url, "None"))
    /\ UNCHANGED ThreadFrame

\* Line 142: if url_hash in self.seen_urls
SeenTest(t) ==
    /\ frame[t].pc = "seen_test"
    /\ IF frame[t].url_hash \in dedup.seen_urls
       THEN Goto(t, "duplicate_frequency")
       ELSE Goto(t, "seen_add")
    /\ UNCHANGED <<dedup, ThreadFrame>>

\* Line 143: self.url_frequency[url_hash] = self.url_frequency.get(url_hash, 0) + 1
DuplicateFrequency(t) ==
    /\ frame[t].pc = "duplicate_frequency"
    /\ dedup' = [dedup EXCEPT
                    !.url_frequency =
                        frequency_set(@, frame[t].url_hash,
                                      frequency_get(@, frame[t].url_hash) + 1)]
    /\ Goto(t, "duplicate_count")
    /\ UNCHANGED ThreadFrame

\* Lines 144-150: self.stats['duplicates'] += 1; return
DuplicateCount(t) ==
    /\ frame[t].pc = "duplicate_count"
    /\ dedup' = [dedup EXCEPT !.stats.duplicates = @ + 1]
    /\ Return(t, DeduplicationResult(TRUE, frame[t].url_hash,
                                     frame[t].normalized_url, "Exact duplicate"))
    /\ UNCHANGED ThreadFrame

\* Line 153: self.seen_urls.add(url_hash)
SeenAdd(t) ==
    /\ frame[t].pc = "seen_add"
    /\ dedup' = [dedup EXCEPT !.seen_urls = @ \cup {frame[t].url_hash}]
    /\ Goto(t, "frequency")
    /\ UNCHANGED ThreadFrame

\* Line 154: self.url_frequency[url_hash] = 1
Frequency(t) ==
    /\ frame[t].pc = "frequency"
    /\ dedup' = [dedup EXCEPT !.url_frequency = frequency_set(@, frame[t].url_hash, 1)]
    /\ Goto(t, "unique")
    /\ UNCHANGED ThreadFrame

\* Line 155: self.stats['unique_urls'] += 1
Unique(t) ==
    /\ frame[t].pc = "unique"
    /\ dedup' = [dedup EXCEPT !.stats.unique_urls = @ + 1]
    /\ Goto(t, "evict")
    /\ UNCHANGED ThreadFrame

\* Lines 158-164: self._evict_cache(); return
Evict(t) ==
    /\ frame[t].pc = "evict"
    /\ dedup' = evict_cache(dedup)
    /\ Return(t, DeduplicationResult(FALSE, frame[t].url_hash,
                                     frame[t].normalized_url, "None"))
    /\ UNCHANGED ThreadFrame

ThreadNext ==
    \E t \in Threads :
        \/ \E url \in ThreadURLs : Enter(t, url)
        \/ FilterTest(t)
        \/ FilterAdd(t)
        \/ FastSeenAdd(t)
        \/ FastFrequency(t)
        \/ FastUnique(t)
        \/ SeenTest(t)
        \/ DuplicateFrequency(t)
        \/ DuplicateCount(t)
        \/ SeenAdd(t)
        \/ Frequency(t)
        \/ Unique(t)
        \/ Evict(t)

ThreadSpec == ThreadInit /\ [][ThreadNext]_vars

-----------------------------------------------------------------------------
(* URLNormalizer.normalize as a function of the raw URL: the raw URL is    *)
(* put together from a scheme, a host, a port, a path and a query, and is  *)
(* normalized next to a variant of it that differs in one respect.         *)

upper_char(c) == IF islower(c) THEN chr(ord[c] - ord["a"] + ord["A"]) ELSE c

\* str.upper()
upper(s) == [i \in 1..Len(s) |-> upper_char(s[i])]

Schemes == { <<"h","t","t","p">>,
      <<"h","t","t","p","s">> }

\* 'example.com', and hosts in which a variation shows again once a variation
\* was replaced: 'wwwww.w.x.com', 'a.m.m.b.com', 'a.m-mobile.b.com'
Hosts ==
    { <<"e","x","a","m","p","l","e",".","c","o","m">>,
      <<"w","w","w","w","w",".","w",".","x",".","c","o","m">>,
      <<"a",".","m",".","m",".","b",".","c","o","m">>,
      <<"a",".","m","-","m","o","b","i","l","e",".","b",".","c","o","m">> }

\* no port, ':8080', and the stacked ':80:443'
Ports == { << >>,
      <<":","8","0","8","0">>,
      <<":","8","0",":","4","4","3">> }

\* no path, '/path', '/a/b'
Paths == { << >>,
      <<"/","p","a","t","h">>,
      <<"/","a","/","b">> }

\* no query, 'a=1&b=2', a repeated key 'a=2&a=1', a blank value 'b=&a=1'
Queries ==
    { << >>,
      <<"a","=","1","&","b","=","2">>,
      <<"a","=","2","&","a","=","1">>,
      <<"b","=","&","a","=","1">> }

URLParts ==
    [scheme : Schemes, host : Hosts, port : Ports, path : Paths, query : Queries]

\* The raw URL of the parts.
build(p) ==
    p.scheme \o <<":","/","/">> \o p.host \o p.port \o p.path
        \o (IF p.query = << >> THEN << >> ELSE <<"?">> \o p.query)

\* The respects in which the variant differs: letter case of scheme, host
\* and path; a leading 'www.'; a trailing slash; the order of the query
\* parameters; a parameter of remove_params added; a port 80 or 443 added.
Kinds ==
    {[name |-> n, param |-> << >>] :
        n \in {"case", "www", "slash", "order", "port80", "port443"}}
    \cup {[name |-> "tracking", param |-> param] : param \in remove_params}

RawKind == [name |-> "raw", param |-> << >>]

RECURSIVE reversed(_)
reversed(s) == IF s = << >> THEN << >> ELSE Append(reversed(Tail(s)), Head(s))

\* The kind of variant exists for the parts.
applicable(p, kind) ==
    CASE kind.name = "slash"  -> p.path # << >>
      [] kind.name = "order"  -> p.query # << >>
      [] kind.name \in {"port80", "port443"} -> p.port = << >>
      [] OTHER -> TRUE

\* The parts of the variant.
vary(p, kind) ==
    CASE kind.name = "case" ->
             [p EXCEPT !.scheme = upper(@), !.host = upper(@), !.path = upper(@)]
      [] kind.name = "www" -> [p EXCEPT !.host = <<"w","w","w",".">> \o @]
      [] kind.name = "slash" -> [p EXCEPT !.path = @ \o <<"/">>]
      [] kind.name = "order" ->
             [p EXCEPT !.query = join(<<"&">>, reversed(split(@, "&")))]
      [] kind.name = "tracking" ->
             [p EXCEPT !.query = kind.param \o <<"=","x">>
                                     \o (IF @ = << >> THEN << >> ELSE <<"&">> \o @)]
      [] kind.name = "port80" -> [p EXCEPT !.port = <<":","8","0">>]
      [] kind.name = "port443" -> [p EXCEPT !.port = <<":","4","4","3">>]

\* 'https://www.example.com/' of test_url_normalization
test_url_root ==
    <<"h","t","t","p","s",":","/","/","w","w","w",".","e","x","a","m","p","l","e",".","c","o","m","/">>

\* 'https://EXAMPLE.com/path/' of test_url_normalization
test_url_path ==
    <<"h","t","t","p","s",":","/","/","E","X","A","M","P","L","E",".","c","o","m","/","p","a","t","h","/">>

\* 'https://example.com/path?utm_source=test' of test_url_normalization
test_url_tracking ==
    <<"h","t","t","p","s",":","/","/","e","x","a","m","p","l","e",".","c","o","m","/","p","a","t","h","?","u","t","m","_","s","o","u","r","c","e","=","t","e","s","t">>

TestURLs == {test_url_root, test_url_path, test_url_tracking}

\* The raw URLs given to normalize, each with its variant.
NormalizerInputs ==
    {[url |-> build(pk[1]), variant |-> build(vary(pk[1], pk[2])), kind |-> pk[2]] :
        pk \in {qk \in URLParts \X Kinds : applicable(qk[1], qk[2])}}
    \cup {[url |-> url, variant |-> url, kind |-> RawKind] : url \in RawURLs \cup TestURLs}

NormalizeInit ==
    /\ pybloom_live = TRUE
    /\ \E raw \in NormalizerInputs :
           ConstructedWithInput(URLDeduplicator(MaxCacheSize, FALSE, pybloom_live),
                                URLDeduplicator(MaxCacheSize, FALSE, pybloom_live), raw)

\* What the caller of normalize holds afterwards: the results for the url
\* and its variant, the final canonical string is_duplicate derives, and
\* what urlparse made of the url.
NormalizeOutput(parsed, normalized, variant_normalized) ==
    [normalized |-> normalized,
     variant    |-> variant_normalized,
     again      |-> << >>,
     canonical  |-> PureNormalized(normalized).normalized_url,
     raises     |-> parsed.raises,
     scheme     |-> parsed.scheme,
     netloc     |-> parsed.netloc]

NormalizerFrame == <<memo, dedup, pybloom_live, call, result, submitted, clears, faults,
                     twin, twin_result, frame, batch, input, validation>>

\* normalize(input.url) and normalize(input.variant)
Normalize ==
    /\ output = NoOutput
    /\ output' = NormalizeOutput(urlparse(input.url), normalize(input.url),
                                 normalize(input.variant))
    /\ UNCHANGED NormalizerFrame

\* normalize(normalize(input.url))
NormalizeAgain ==
    /\ output # NoOutput
    /\ output.normalized # None
    /\ output.again = << >>
    /\ output' = [output EXCEPT !.again = normalize(output.normalized)]
    /\ UNCHANGED NormalizerFrame

NormalizeNext == Normalize \/ NormalizeAgain

NormalizeSpec == NormalizeInit /\ [][NormalizeNext]_vars

-----------------------------------------------------------------------------
(* URLValidator (validation.py).                                           *)

\* self.skip_extensions
skip_extensions ==
    { <<".","p","d","f">>,
      <<".","d","o","c">>,
      <<".","d","o","c","x">>,
      <<".","x","l","s">>,
      <<".","x","l","s","x">>,
      <<".","z","i","p">>,
      <<".","r","a","r">>,
      <<".","t","a","r">>,
      <<".","g","z">>,
      <<".","j","p","g">>,
      <<".","j","p","e","g">>,
      <<".","p","n","g">>,
      <<".","g","i","f">>,
      <<".","m","p","4">>,
      <<".","m","p","3">> }

\* self.blocked_domains
blocked_domains ==
    { <<"f","a","c","e","b","o","o","k",".","c","o","m">>,
      <<"t","w","i","t","t","e","r",".","c","o","m">>,
      <<"i","n","s","t","a","g","r","a","m",".","c","o","m">>,
      <<"y","o","u","t","u","b","e",".","c","o","m">>,
      <<"l","i","n","k","e","d","i","n",".","c","o","m">> }

\* The public suffixes of the hosts of the inputs: 'com', 'org', 'uk',
\* 'co.uk'.
public_suffixes ==
    { <<"c","o","m">>,
      <<"o","r","g">>,
      <<"u","k">>,
      <<"c","o",".","u","k">> }

\* s after the last c (all of s when it has none): s.rpartition(c)[-1].
after_last(s, c) == SubSeq(s, rfind(s, c) + 1, Len(s))

\* tldextract's netloc of a url: the scheme and '//' are cut off the front,
\* then everything from the first '/', '?' or '#', the userinfo up to the
\* last '@', the port from the first ':', and trailing dots.
lenient_netloc(url) ==
    LET i          == find(url, ":", 1)
        schemeless == IF has_scheme(url, i) /\ startswith_at(url, <<"/","/">>, i + 1)
                      THEN SubSeq(url, i + 3, Len(url))
                      ELSE IF startswith_at(url, <<"/","/">>, 1)
                      THEN SubSeq(url, 3, Len(url)) ELSE url
        authority  == before(before(before(schemeless, "/"), "?"), "#")
    IN  rstrip(before(after_last(authority, "@"), ":"), ".")

\* The place in labels where the public suffix starts: the longest suffix
\* of the labels that is a public suffix; one past the end when none is.
suffix_index(labels) ==
    LET starts == {j \in 1..Len(labels) :
                      join(<<".">>, SubSeq(labels, j, Len(labels))) \in public_suffixes}
    IN  IF starts = {} THEN Len(labels) + 1 ELSE min(starts)

\* tldextract.extract(url): domain and suffix of the ExtractResult.
tldextract_extract(url) ==
    LET labels == split(lenient_netloc(url), ".")
        at     == suffix_index(labels)
    IN  [domain |-> IF at > 1 THEN labels[at - 1] ELSE << >>,
         suffix |-> join(<<".">>, SubSeq(labels, at, Len(labels)))]

URLValidationResult(is_valid, reason) == [is_valid |-> is_valid, reason |-> reason]

\* An is_valid_url that tests the length before the file extension.
is_valid_url_length_first(url, parsed) ==
    IF parsed.scheme = << >> \/ parsed.netloc = << >>
    THEN URLValidationResult(FALSE, "Invalid URL format")
    ELSE IF parsed.scheme \notin {s_http, s_https}
    THEN URLValidationResult(FALSE, "Invalid scheme")
    ELSE IF tldextract_extract(url).domain \o <<".">> \o tldextract_extract(url).suffix
                \in blocked_domains
    THEN URLValidationResult(FALSE, "Blocked domain")
    ELSE IF Len(url) > 2000
    THEN URLValidationResult(FALSE, "URL too long")
    ELSE IF \E ext \in skip_extensions : endswith(lower(url), ext)
    THEN URLValidationResult(FALSE, "Blocked file extension")
    ELSE URLValidationResult(TRUE, "")

\* The checks of is_valid_url after urlparse(url) gave parsed (lines 40-65).
is_valid_url_parsed(url, parsed) ==
    IF parsed.scheme = << >> \/ parsed.netloc = << >>
    THEN URLValidationResult(FALSE, "Invalid URL format")
    ELSE IF parsed.scheme \notin {s_http, s_https}
    THEN URLValidationResult(FALSE, "Invalid scheme")
    ELSE IF tldextract_extract(url).domain \o <<".">> \o tldextract_extract(url).suffix
                \in blocked_domains
    THEN URLValidationResult(FALSE, "Blocked domain")
    ELSE IF \E ext \in skip_extensions : endswith(lower(url), ext)
    THEN URLValidationResult(FALSE, "Blocked file extension")
    ELSE IF Len(url) > 2000
    THEN URLValidationResult(FALSE, "URL too long")
    ELSE URLValidationResult(TRUE, "")

\* URLValidator.is_valid_url: the ValueError of urlparse is caught by the
\* except branch and becomes the reason.
is_valid_url(url) ==
    IF urlparse(url).raises
    THEN URLValidationResult(FALSE, "Validation error: Invalid IPv6 URL")
    ELSE is_valid_url_parsed(url, urlparse(url))

\* The raw URLs given to is_valid_url are put together from a scheme, a
\* host, a path and a length to which the path is filled up.

\* 'http', 'https', 'HTTP', 'ftp', and no scheme
ValidatorSchemes ==
    { <<"h","t","t","p">>,
      <<"h","t","t","p","s">>,
      <<"H","T","T","P">>,
      <<"f","t","p">>,
      << >> }

\* 'example.com', 'news.bbc.co.uk', the blocked 'facebook.com',
\* 'www.twitter.com' and 'user@m.youtube.com:8080', and no host
ValidatorHosts ==
    { <<"e","x","a","m","p","l","e",".","c","o","m">>,
      <<"n","e","w","s",".","b","b","c",".","c","o",".","u","k">>,
      <<"f","a","c","e","b","o","o","k",".","c","o","m">>,
      <<"w","w","w",".","t","w","i","t","t","e","r",".","c","o","m">>,
      <<"u","s","e","r","@","m",".","y","o","u","t","u","b","e",".","c","o","m",":","8","0","8","0">>,
      << >> }

\* no path, '/page', '/a.pdf', '/A.PDF', '/a.pdf?x=1', '/file.tar.gz'
ValidatorPaths ==
    { << >>,
      <<"/","p","a","g","e">>,
      <<"/","a",".","p","d","f">>,
      <<"/","A",".","P","D","F">>,
      <<"/","a",".","p","d","f","?","x","=","1">>,
      <<"/","f","i","l","e",".","t","a","r",".","g","z">> }

\* The lengths the url is filled up to: 0 for no filling, the greatest
\* length that is not too long, and the least that is.
ValidatorLengths == {0, 2000, 2001}

\* Every scheme, host and path without filling; 'http' and 'ftp',
\* 'example.com' and 'facebook.com', no path, '/page' and '/a.pdf' with it.
ValidatorParts ==
    [scheme : ValidatorSchemes, host : ValidatorHosts, path : ValidatorPaths,
     length : {0}]
    \cup [scheme : {s_http, s_ftp},
          host   : {<<"e","x","a","m","p","l","e",".","c","o","m">>,
                    <<"f","a","c","e","b","o","o","k",".","c","o","m">>},
          path   : {<< >>, <<"/","p","a","g","e">>, <<"/","a",".","p","d","f">>},
          length : ValidatorLengths \ {0}]

\* The raw URL of the parts: a path segment of 'a's before the path brings
\* it to the length.
build_of_length(p) ==
    LET prefix == (IF p.scheme = << >> THEN << >> ELSE p.scheme \o <<":","/","/">>)
                      \o p.host
        filling == p.length - Len(prefix) - Len(p.path) - 1
    IN  IF p.length = 0 THEN prefix \o p.path
        ELSE prefix \o <<"/">> \o [i \in 1..filling |-> "a"] \o p.path

ValidatorInputs == {build_of_length(p) : p \in ValidatorParts} \cup RawURLs

ValidateInit ==
    /\ pybloom_live = TRUE
    /\ \E url \in ValidatorInputs :
           ConstructedWithInputs(URLDeduplicator(MaxCacheSize, FALSE, pybloom_live),
                                 URLDeduplicator(MaxCacheSize, FALSE, pybloom_live),
                                 NoInput, url)

\* URLValidator().is_valid_url(validation.url)
IsValidURL ==
    /\ validation = NotValidated(validation.url)
    /\ validation' = [validation EXCEPT !.result = is_valid_url(validation.url)]
    /\ UNCHANGED <<memo, dedup, pybloom_live, call, result, submitted, clears, faults,
                   twin, twin_result, frame, batch, input, output>>

ValidateNext == IsValidURL

ValidateSpec == ValidateInit /\ [][ValidateNext]_vars

-----------------------------------------------------------------------------
(* Properties of the sequential deduplicator.                              *)

\* The step is one call of is_duplicate.
IsDuplicateStep ==
    /\ call'.op = "is_duplicate"
    /\ dedup'.stats.total_urls = dedup.stats.total_urls + 1

\* C1: after every is_duplicate call the cache holds at most max_cache_size
\* keys.
C1_CacheBounded ==
    call.op = "is_duplicate" => Cardinality(dedup.seen_urls) <= dedup.max_cache_size

\* C2: a normalizable URL reported not-duplicate and submitted again as the
\* very next call is reported duplicate, with reason "Exact duplicate".
C2_Repeat ==
    [][(/\ call.op = "is_duplicate"
        /\ normalizable(call.url)
        /\ ~result.is_duplicate
        /\ IsDuplicateStep
        /\ normalizable(call'.url)
        /\ canonical(call'.url) = canonical(call.url))
       => (result'.is_duplicate /\ result'.reason = "Exact duplicate")]_vars

\* C3: a normalizable URL whose canonical form was never submitted before is
\* reported not-duplicate, whatever was submitted before and in both modes.
C3_FirstSeen ==
    [][(/\ IsDuplicateStep
        /\ normalizable(call'.url)
        /\ canonical(call'.url) \notin submitted)
       => ~result'.is_duplicate]_vars

\* A never-submitted URL was just reported not-duplicate by a deduplicator
\* that had already seen two other canonical URLs.
C3_Witness ==
    /\ call.op = "is_duplicate"
    /\ normalizable(call.url)
    /\ ~result.is_duplicate
    /\ dedup.stats.total_urls = Cardinality(submitted)
    /\ Cardinality(submitted) >= 3

\* Raw URLs that differ only in host case, a www. prefix, a trailing slash,
\* tracking parameters or the order of the query parameters.
EquivalentURLs ==
    {<<a, b>> \in RawURLs \X RawURLs :
        /\ a # b
        /\ \/ {a, b} \subseteq {url1, url2, url_case_tracking}
           \/ {a, b} \subseteq {url_query_ba, url_query_ab}}

\* C4: on a fresh deduplicator the first of two equivalent raw URLs is
\* reported not-duplicate, the second, checked right after, duplicate, and
\* both results carry the same hash_value.
C4_EquivalentDeduplicated ==
    [][(/\ call.op = "is_duplicate"
        /\ dedup.stats.total_urls = 1
        /\ clears = 0
        /\ IsDuplicateStep
        /\ <<call.url, call'.url>> \in EquivalentURLs)
       => (/\ ~result.is_duplicate
           /\ result'.is_duplicate
           /\ result'.hash_value = result.hash_value)]_vars

\* The raw strings of the model that do not parse to a URL with both a
\* scheme and a host.
MalformedURLs == {url_empty, url_words, url_path_only, url_bad_ipv6}

\* C7: a malformed raw string gets the "Invalid URL format" result.
C7_MalformedRejected ==
    (call.op = "is_duplicate" /\ call.url \in MalformedURLs)
        => result = DeduplicationResult(TRUE, << >>, call.url, "Invalid URL format")

\* C10: on a fresh deduplicator, after max_cache_size + 1 pairwise distinct
\* canonical URLs were checked once each, the cache holds at most
\* max_cache_size and at least floor(max_cache_size * 0.75) keys.
C10_EvictionBound ==
    (/\ call.op = "is_duplicate"
     /\ clears = 0
     /\ dedup.stats.total_urls = dedup.max_cache_size + 1
     /\ Cardinality(submitted) = dedup.max_cache_size + 1)
        => /\ Cardinality(dedup.seen_urls) <= dedup.max_cache_size
           /\ Cardinality(dedup.seen_urls) >= keep_count(dedup)

-----------------------------------------------------------------------------
(* Properties of the deduplicator under raising library calls.             *)

\* C8 as claimed: whenever a step of is_duplicate raised, normalization
\* included, the result is the error result with reason "Error: <message>".
C8_AnyFaultGivesErrorReason ==
    (/\ call.op = "is_duplicate"
     /\ (call.raised # "none" \/ url_normalizer_normalize(call.url) = None))
        => /\ result.is_duplicate
           /\ result.hash_value = << >>
           /\ result.normalized_url = call.url
           /\ result.reason \in ErrorReasons

\* C8 as amended: an exception inside URLNormalizer.normalize gives the
\* "Invalid URL format" result, an exception of any later step the result
\* with reason "Error: <message>"; both are duplicates with an empty
\* hash_value and the raw input as normalized_url.
C8_FailSafe ==
    call.op = "is_duplicate" =>
        /\ url_normalizer_normalize(call.url) = None
               => result = DeduplicationResult(TRUE, << >>, call.url, "Invalid URL format")
        /\ call.raised # "none"
               => result = DeduplicationResult(TRUE, << >>, call.url,
                                               error_message(call.raised))

\* The sort of an eviction raised and the caller got the error result.
C8_Witness ==
    /\ call.op = "is_duplicate"
    /\ call.raised = "evict_cache"
    /\ result.is_duplicate
    /\ result.reason = error_message("evict_cache")

\* C9: a call that ends in the error result leaves seen_urls and
\* url_frequency as they were before the call.
C9_NoPartialInsert ==
    [][(IsDuplicateStep /\ result'.reason \in ErrorReasons)
       => (/\ dedup'.seen_urls = dedup.seen_urls
           /\ dedup'.url_frequency = dedup.url_frequency)]_vars

-----------------------------------------------------------------------------
(* Properties of concurrent callers and of the two modes.                  *)

\* C5: when two threads have checked the same never-seen canonical URL on
\* a fresh instance, exactly one of them got is_duplicate == false, and
\* unique_urls and duplicates have both grown by 1.
C5_CheckIsAtomic ==
    (/\ \A t \in Threads : frame[t].pc = "done" /\ frame[t].result.hash_value # << >>
     /\ \A t, u \in Threads : frame[t].url_hash = frame[u].url_hash)
        => /\ Cardinality({t \in Threads : ~frame[t].result.is_duplicate}) = 1
           /\ dedup.stats.unique_urls = 1
           /\ dedup.stats.duplicates = 1

\* C6: after the same calls the instance with the filter and the exact-only
\* instance have returned the same is_duplicate and hold the same cache,
\* frequencies and counters.
C6_FilterChangesNothing ==
    /\ result.is_duplicate = twin_result.is_duplicate
    /\ dedup.seen_urls = twin.seen_urls
    /\ dedup.url_frequency = twin.url_frequency
    /\ dedup.stats = twin.stats

-----------------------------------------------------------------------------
(* Properties of eviction and of clear_cache.                              *)

\* The keys of a frequency table.
frequency_keys(url_frequency) == {url_frequency[i][1] : i \in 1..Len(url_frequency)}

\* The step is an is_duplicate in which _evict_cache evicted.
EvictionStep ==
    /\ IsDuplicateStep
    /\ dedup'.stats.cache_evictions = dedup.stats.cache_evictions + 1

\* C11: an eviction keeps exactly floor(max_cache_size * 0.75) keys, in
\* seen_urls and url_frequency alike; every kept key had a frequency higher
\* than every evicted key, or the same frequency and an earlier insertion;
\* kept keys keep their frequency.
C11_EvictionMonotone ==
    [][EvictionStep =>
          LET entered == frequency_set(dedup.url_frequency, result'.hash_value, 1)
              kept    == dedup'.seen_urls
          IN  /\ Cardinality(kept) = keep_count(dedup)
              /\ kept \subseteq frequency_keys(entered)
              /\ frequency_keys(dedup'.url_frequency) = kept
              /\ Len(dedup'.url_frequency) = Cardinality(kept)
              /\ \A i \in 1..Len(entered) :
                     entered[i][1] \in kept =>
                         frequency_get(dedup'.url_frequency, entered[i][1]) = entered[i][2]
              /\ \A i, j \in 1..Len(entered) :
                     (entered[i][1] \in kept /\ entered[j][1] \notin kept) =>
                         \/ entered[i][2] > entered[j][2]
                         \/ (entered[i][2] = entered[j][2] /\ i < j)]_vars

\* An eviction has kept a key seen twice and dropped the key just inserted.
C11_Witness ==
    /\ call.op = "is_duplicate"
    /\ clears = 0
    /\ dedup.stats.cache_evictions >= 1
    /\ ~result.is_duplicate
    /\ result.hash_value # << >>
    /\ result.hash_value \notin dedup.seen_urls
    /\ \E i \in 1..Len(dedup.url_frequency) : dedup.url_frequency[i][2] >= 2

\* The step is one call of clear_cache.
ClearCacheStep ==
    /\ call'.op = "clear_cache"
    /\ clears' = clears + 1

\* C12: clear_cache empties seen_urls and url_frequency, makes the filter of
\* an instance that uses one empty, adds 1 to cache_evictions and leaves the
\* other counters alone; the is_duplicate that follows a clear_cache reports
\* a normalizable URL as not duplicate.
C12_ClearCacheResets ==
    [][/\ ClearCacheStep =>
              /\ dedup'.seen_urls = {}
              /\ dedup'.url_frequency = << >>
              /\ dedup'.use_bloom_filter => dedup'.bloom_filter = {}
              /\ dedup'.stats = [dedup.stats EXCEPT !.cache_evictions = @ + 1]
       /\ (call.op = "clear_cache" /\ IsDuplicateStep /\ normalizable(call'.url))
              => ~result'.is_duplicate]_vars

\* A URL that was reported duplicate is reported new after a clear_cache, on
\* an instance that uses the filter.
C12_Witness ==
    /\ call.op = "is_duplicate"
    /\ clears = 1
    /\ dedup.use_bloom_filter
    /\ dedup.stats.duplicates >= 1
    /\ Cardinality(submitted) = 1
    /\ dedup.stats.total_urls = 3
    /\ ~result.is_duplicate
    /\ result.hash_value # << >>

-----------------------------------------------------------------------------
(* Properties of add_batch.                                                *)

\* add_batch gives one result per url, the results the twin got from
\* is_duplicate on the same urls in order, and leaves dedup as the twin is.
BatchIsSequential ==
    batch.pending = << >> =>
        /\ Len(batch.results) = Len(batch.urls)
        /\ batch.results = batch.twin_results
        /\ dedup = twin

\* C13: add_batch is the sequence of is_duplicate calls, and in the first
\* batch on a fresh instance a normalizable url is reported duplicate
\* exactly at the positions after the first of its canonical string.
C13_BatchAsSequentialCalls ==
    /\ BatchIsSequential
    /\ (call.op = "add_batch" /\ dedup.stats.total_urls = Len(batch.urls)) =>
           \A j \in 1..Len(batch.urls) :
               normalizable(batch.urls[j]) =>
                   (batch.results[j].is_duplicate <=>
                       \E i \in 1..(j - 1) :
                           /\ normalizable(batch.urls[i])
                           /\ canonical(batch.urls[i]) = canonical(batch.urls[j]))

-----------------------------------------------------------------------------
(* Properties of the fallback to exact-only mode.                          *)

\* Without pybloom_live the construction and clear_cache leave the instance
\* in exact-only mode, and an is_duplicate in exact-only mode neither
\* changes the filter nor the mode.
DegradesToExactOnly ==
    /\ ~pybloom_live => ~dedup.use_bloom_filter
    /\ [][/\ (ClearCacheStep /\ ~pybloom_live) => ~dedup'.use_bloom_filter
          /\ (IsDuplicateStep /\ ~dedup.use_bloom_filter) =>
                 /\ ~dedup'.use_bloom_filter
                 /\ dedup'.bloom_filter = dedup.bloom_filter]_vars

\* C14: when pybloom_live cannot be imported, at construction or at
\* clear_cache, the instance is in exact-only mode afterwards, later
\* is_duplicate calls leave the filter alone, a normalizable URL whose
\* canonical string was never submitted is reported not duplicate, and a URL
\* reported not duplicate is reported "Exact duplicate" when it is submitted
\* again as the very next call.
C14_GracefulDegradation ==
    /\ ~pybloom_live => ~dedup.use_bloom_filter
    /\ [][/\ (ClearCacheStep /\ ~pybloom_live) => ~dedup'.use_bloom_filter
          /\ (IsDuplicateStep /\ ~dedup.use_bloom_filter) =>
                 /\ ~dedup'.use_bloom_filter
                 /\ dedup'.bloom_filter = dedup.bloom_filter
          /\ (/\ IsDuplicateStep
              /\ ~pybloom_live
              /\ ~dedup.use_bloom_filter
              /\ normalizable(call'.url)) =>
                 /\ canonical(call'.url) \notin submitted => ~result'.is_duplicate
                 /\ (/\ call.op = "is_duplicate"
                     /\ normalizable(call.url)
                     /\ ~result.is_duplicate
                     /\ canonical(call.url) = canonical(call'.url))
                        => (result'.is_duplicate /\ result'.reason = "Exact duplicate")]_vars

-----------------------------------------------------------------------------
(* Properties of URLNormalizer.normalize.                                  *)

\* normalize has returned for input.url and input.variant.
Normalized == output # NoOutput

\* C15: normalize returns None for a raw string whose parse has an empty
\* scheme or an empty host, and a str only when both are present.
C15_NoneWithoutSchemeOrHost ==
    Normalized =>
        (output.normalized # None <=>
            (~output.raises /\ output.scheme # << >> /\ output.netloc # << >>))

\* C16: normalize(normalize(u)) = normalize(u).
C16_Idempotent ==
    (Normalized /\ output.again # << >>) => output.again = output.normalized

\* C17: a URL and its variant that differs in the letter case of scheme, host
\* and path, in a leading 'www.' or in a trailing slash on a non-empty path
\* have the same normalized string.
C17_HostPathEquivalence ==
    (Normalized /\ input.kind.name \in {"case", "www", "slash"})
        => output.variant = output.normalized

\* normalize has returned the same str for a URL with a path and a query and
\* for the variant of it that ends in one more slash.
C17_Witness ==
    /\ Normalized
    /\ input.kind.name = "slash"
    /\ input.url # input.variant
    /\ find(input.url, "?", 1) # 0
    /\ output.normalized # None
    /\ output.variant = output.normalized

\* The fields name=value of the query of a URL string.
query_fields(url) ==
    IF after(url, "?") = << >> THEN << >> ELSE split(after(url, "?"), "&")

\* C18: the normalized string is the same whatever the order of the query
\* parameters and whether or not a parameter of the block-list is present;
\* the other parameters are all kept, with every value of a repeated key,
\* and come out sorted by name.
C18_QueryCanonical ==
    (Normalized /\ output.normalized # None /\ input.kind.name # "raw") =>
        /\ input.kind.name \in {"order", "tracking"} => output.variant = output.normalized
        /\ LET kept == SelectSeq(query_fields(input.url),
                                 LAMBDA f : before(f, "=") \notin remove_params)
               out  == query_fields(output.normalized)
           IN  /\ Len(out) = Len(kept)
               /\ {out[i] : i \in 1..Len(out)} = {kept[i] : i \in 1..Len(kept)}
               /\ \A i, j \in 1..Len(out) :
                      i < j => ~str_lt(before(out[j], "="), before(out[i], "="))

C20_DefaultPortByScheme ==
    /\ (Normalized /\ input.kind.name = "port80")
           => (output.variant = output.normalized <=> output.scheme = s_http)
    /\ (Normalized /\ input.kind.name = "port443")
           => (output.variant = output.normalized <=> output.scheme = s_https)

-----------------------------------------------------------------------------
(* Properties of URLValidator.is_valid_url.                                *)

\* is_valid_url was called.
Validated == validation # NotValidated(validation.url)

\* For each of the five checks in the order format, scheme, blocked domain,
\* blocked file extension, length: whether url fails it, and the reason.
failing_checks(url) ==
    <<urlparse(url).scheme = << >> \/ urlparse(url).netloc = << >>,
      urlparse(url).scheme \notin {s_http, s_https},
      \E d \in blocked_domains :
          tldextract_extract(url).domain \o <<".">> \o tldextract_extract(url).suffix = d,
      \E ext \in skip_extensions : endswith(lower(url), ext),
      Len(url) > 2000>>

check_reasons ==
    <<"Invalid URL format", "Invalid scheme", "Blocked domain",
      "Blocked file extension", "URL too long">>

\* C21: is_valid_url returns the reason of the first of the five checks, in
\* the order format, scheme, blocked domain, blocked file extension,
\* length, that the url fails, and is_valid = TRUE for a url that fails
\* none (a url of exactly 2000 characters does not fail the length check);
\* whatever the url, a URLValidationResult comes back.
C21_FirstFailingCheck ==
    Validated =>
        LET failed == {i \in 1..5 : failing_checks(validation.url)[i]}
        IN  /\ validation.result.is_valid \in BOOLEAN
            /\ urlparse(validation.url).raises => ~validation.result.is_valid
            /\ (~urlparse(validation.url).raises /\ failed = {})
                   => validation.result = URLValidationResult(TRUE, "")
            /\ (~urlparse(validation.url).raises /\ failed # {})
                   => validation.result
                          = URLValidationResult(FALSE, check_reasons[min(failed)])

\* An http url of 2001 characters that ends in '.pdf' was rejected for its
\* file extension.
C21_Witness ==
    /\ Validated
    /\ Len(validation.url) = 2001
    /\ urlparse(validation.url).scheme = s_http
    /\ endswith(validation.url, <<".","p","d","f">>)
    /\ validation.result = URLValidationResult(FALSE, "Blocked file extension")

-----------------------------------------------------------------------------
(* Properties of the filter, of re-admission and of the frequencies.       *)

\* The raw URLs whose canonical string was submitted to is_duplicate.
SubmittedURLs ==
    {url \in RawURLs :
        normalizable(url) /\ ~second_pass(url).raises /\ canonical(url) \in submitted}

\* C22: an is_duplicate call only adds to the filter, one in which
\* _evict_cache evicted leaves the filter as it was, and as long as
\* clear_cache was not called the filter reports every canonical string
\* submitted so far as present, evicted or not.
C22_FilterMonotone ==
    /\ [](dedup.use_bloom_filter /\ clears = 0
             => \A url \in SubmittedURLs : bloom_contains(dedup.bloom_filter, url))
    /\ [][/\ IsDuplicateStep => dedup.bloom_filter \subseteq dedup'.bloom_filter
          /\ EvictionStep => dedup'.bloom_filter = dedup.bloom_filter]_vars

\* On an instance with the filter an eviction has removed the key of a
\* submitted canonical string, which the filter still reports.
C22_Witness ==
    /\ dedup.use_bloom_filter
    /\ clears = 0
    /\ dedup.stats.cache_evictions >= 1
    /\ \E url \in SubmittedURLs :
           /\ compute_url_hash(canonical(url)) \notin dedup.seen_urls
           /\ bloom_contains(dedup.bloom_filter, url)

\* The step is an is_duplicate, on an instance with the filter, of a url
\* whose canonical string was submitted before and whose key an eviction has
\* removed from the cache since.
ReadmissionStep ==
    /\ IsDuplicateStep
    /\ dedup.use_bloom_filter
    /\ clears = 0
    /\ call'.url \in SubmittedURLs
    /\ compute_url_hash(canonical(call'.url)) \notin dedup.seen_urls

\* C23: the is_duplicate of a canonical string whose key was evicted takes
\* the miss branch of the exact check: it returns is_duplicate = FALSE, the
\* key is in the cache again with frequency 1, and unique_urls has grown by
\* 1.
C23_Readmission ==
    [][ReadmissionStep =>
          LET url_hash == compute_url_hash(canonical(call'.url))
          IN  /\ ~result'.is_duplicate
              /\ result'.hash_value = url_hash
              /\ url_hash \in dedup'.seen_urls
              /\ frequency_get(dedup'.url_frequency, url_hash) = 1
              /\ dedup'.stats.unique_urls = dedup.stats.unique_urls + 1]_vars

\* The part of C23 about the result and the counter.
ReadmittedAsUnique ==
    [][ReadmissionStep =>
          /\ ~result'.is_duplicate
          /\ result'.hash_value = compute_url_hash(canonical(call'.url))
          /\ dedup'.stats.unique_urls = dedup.stats.unique_urls + 1
          /\ dedup'.stats.duplicates = dedup.stats.duplicates]_vars

\* C24: every key of the cache has a frequency of at least 1. A call that
\* inserts its key leaves it with frequency 1, an "Exact duplicate" call
\* finds its key in the cache and adds exactly 1 to its frequency, every
\* other call leaves the frequencies alone, and no call changes the
\* frequency of another key that stays in the cache: the frequency of a
\* cached key is the number of calls that observed it since its insertion.
C24_FrequencyCountsObservations ==
    /\ [](\A k \in dedup.seen_urls : frequency_get(dedup.url_frequency, k) >= 1)
    /\ [](\A i \in 1..Len(dedup.url_frequency) :
              /\ dedup.url_frequency[i][1] \in dedup.seen_urls
              /\ dedup.url_frequency[i][2] >= 1
              /\ \A j \in 1..Len(dedup.url_frequency) :
                     dedup.url_frequency[j][1] = dedup.url_frequency[i][1] => j = i)
    /\ [][IsDuplicateStep =>
             LET key == result'.hash_value
             IN  /\ \A k \in (dedup.seen_urls \cap dedup'.seen_urls) \ {key} :
                        frequency_get(dedup'.url_frequency, k)
                            = frequency_get(dedup.url_frequency, k)
                 /\ result'.reason = "Exact duplicate" =>
                        /\ key \in dedup.seen_urls
                        /\ key \in dedup'.seen_urls
                        /\ frequency_get(dedup'.url_frequency, key)
                               = frequency_get(dedup.url_frequency, key) + 1
                 /\ (~result'.is_duplicate /\ key \in dedup'.seen_urls) =>
                        /\ key \notin dedup.seen_urls
                        /\ frequency_get(dedup'.url_frequency, key) = 1
                 /\ (result'.is_duplicate /\ result'.reason # "Exact duplicate") =>
                        dedup'.url_frequency = dedup.url_frequency]_vars

\* Two keys are cached; the one inserted first was observed again and has
\* frequency 2, the other still has frequency 1.
C24_Witness ==
    /\ call.op = "is_duplicate"
    /\ result.reason = "Exact duplicate"
    /\ Len(dedup.url_frequency) = 2
    /\ dedup.url_frequency[1] = <<result.hash_value, 2>>
    /\ dedup.url_frequency[2][2] = 1

\* The step is an is_duplicate that inserts its key.
InsertingStep == IsDuplicateStep /\ ~result'.is_duplicate

\* The step is an is_duplicate whose insert brings the cache to
\* max_cache_size keys or more.
ReachesBoundaryStep ==
    /\ InsertingStep
    /\ Cardinality(dedup.seen_urls \cup {result'.hash_value}) >= dedup.max_cache_size

\* The step is an is_duplicate after which a key other than its own is no
\* longer cached.
RemovingStep ==
    /\ IsDuplicateStep
    /\ ~((dedup.seen_urls \ {result'.hash_value}) \subseteq dedup'.seen_urls)

\* A call removes other keys only if its insert brought the cache to
\* max_cache_size, and then the size drops to floor(max_cache_size * 0.75)
\* and cache_evictions grows by 1; an insert that leaves the cache below
\* max_cache_size adds the key with frequency 1 and changes nothing else.
EvictsOnlyAtBoundary ==
    [][/\ RemovingStep =>
              /\ ReachesBoundaryStep
              /\ Cardinality(dedup'.seen_urls) = keep_count(dedup)
              /\ dedup'.stats.cache_evictions = dedup.stats.cache_evictions + 1
       /\ (InsertingStep /\ ~ReachesBoundaryStep) =>
              /\ dedup'.seen_urls = dedup.seen_urls \cup {result'.hash_value}
              /\ dedup'.url_frequency
                     = Append(dedup.url_frequency, <<result'.hash_value, 1>>)
              /\ dedup'.stats.cache_evictions = dedup.stats.cache_evictions]_vars

\* C25: a call removes other keys only if its insert brought the cache to
\* max_cache_size; a call whose insert brings the cache to max_cache_size
\* leaves floor(max_cache_size * 0.75) keys and adds exactly 1 to
\* cache_evictions; an insert that leaves the cache below max_cache_size
\* leaves the other keys, the frequencies and cache_evictions unchanged.
C25_EvictionAtBoundary ==
    [][/\ RemovingStep => ReachesBoundaryStep
       /\ ReachesBoundaryStep =>
              /\ Cardinality(dedup'.seen_urls) = keep_count(dedup)
              /\ dedup'.stats.cache_evictions = dedup.stats.cache_evictions + 1
       /\ (InsertingStep /\ ~ReachesBoundaryStep) =>
              /\ dedup'.seen_urls = dedup.seen_urls \cup {result'.hash_value}
              /\ dedup'.url_frequency
                     = Append(dedup.url_frequency, <<result'.hash_value, 1>>)
              /\ dedup'.stats.cache_evictions = dedup.stats.cache_evictions]_vars

-----------------------------------------------------------------------------
(* Properties of the counters.                                             *)

\* C26: an is_duplicate that returns "Invalid URL format" adds 1 to
\* total_urls and leaves everything else of the instance as it was:
\* duplicates, unique_urls, seen_urls, url_frequency and the filter; and a
\* call changes duplicates only by adding 1 with the result "Exact
\* duplicate".
C26_MalformedNotCounted ==
    [][IsDuplicateStep =>
          /\ result'.reason = "Invalid URL format" =>
                 dedup' = [dedup EXCEPT !.stats.total_urls = @ + 1]
          /\ dedup'.stats.duplicates # dedup.stats.duplicates =>
                 /\ result'.reason = "Exact duplicate"
                 /\ dedup'.stats.duplicates = dedup.stats.duplicates + 1]_vars

\* A malformed url was rejected after a url was inserted and found again:
\* three calls, one duplicate, one unique url.
C26_Witness ==
    /\ call.op = "is_duplicate"
    /\ result.reason = "Invalid URL format"
    /\ dedup.stats = [total_urls |-> 3, duplicates |-> 1, unique_urls |-> 1,
                      cache_evictions |-> 0]
    /\ Cardinality(dedup.seen_urls) = 1

-----------------------------------------------------------------------------
(* Properties of the instance after any of its operations.                 *)

\* C27: after every is_duplicate, add_batch and clear_cache, evictions
\* included, the keys of url_frequency are exactly the keys of seen_urls,
\* each once.
C27_FrequencyKeysAreCache ==
    /\ frequency_keys(dedup.url_frequency) = dedup.seen_urls
    /\ Len(dedup.url_frequency) = Cardinality(dedup.seen_urls)

\* An add_batch after a clear_cache has left a key in the cache, and two
\* evictions have taken place.
C27_Witness ==
    /\ call.op = "add_batch"
    /\ clears = 1
    /\ dedup.stats.cache_evictions >= 2
    /\ dedup.seen_urls # {}
    /\ Len(batch.urls) >= 2

\* The raw URLs whose key is in the cache.
CachedURLs ==
    {url \in RawURLs :
        /\ normalizable(url)
        /\ ~second_pass(url).raises
        /\ compute_url_hash(canonical(url)) \in dedup.seen_urls}

\* C28: on an instance with the filter, every key of the cache is the hash
\* of a canonical string the filter holds, and the filter reports every url
\* whose key is cached as present; so an is_duplicate of such a url does not
\* take the fast path: it returns "Exact duplicate" and adds 1 to the
\* frequency of the key.
C28_CachedKeysAreInFilter ==
    /\ [](dedup.use_bloom_filter =>
              /\ \A k \in dedup.seen_urls :
                     \E url \in CachedURLs : compute_url_hash(canonical(url)) = k
              /\ \A url \in CachedURLs : bloom_contains(dedup.bloom_filter, url))
    /\ [][(/\ IsDuplicateStep
           /\ dedup.use_bloom_filter
           /\ call'.url \in CachedURLs
           /\ call'.raised = "none")
              => /\ result'.reason = "Exact duplicate"
                 /\ frequency_get(dedup'.url_frequency, result'.hash_value)
                        = frequency_get(dedup.url_frequency, result'.hash_value) + 1]_vars

\* On an instance with the filter a url inserted before a clear_cache was
\* inserted again after it by the fast path and then found in the cache.
C28_Witness ==
    /\ dedup.use_bloom_filter
    /\ clears = 1
    /\ Cardinality(submitted) = 1
    /\ dedup.stats.total_urls = 3
    /\ dedup.stats.unique_urls = 2
    /\ result.reason = "Exact duplicate"
    /\ frequency_get(dedup.url_frequency, result.hash_value) = 2

\* The step is one call of get_stats.
GetStatsStep == call'.op = "get_stats"

\* No counter is lower after the step than before it.
CountersGrow ==
    /\ dedup'.stats.total_urls >= dedup.stats.total_urls
    /\ dedup'.stats.duplicates >= dedup.stats.duplicates
    /\ dedup'.stats.unique_urls >= dedup.stats.unique_urls
    /\ dedup'.stats.cache_evictions >= dedup.stats.cache_evictions

\* total_urls counts the is_duplicate calls and nothing else, no counter
\* decreases, a call that returns a result other than "Invalid URL format"
\* or "Error: ..." adds 1 to exactly one of duplicates and unique_urls, and
\* get_stats returns the four counters and the size of seen_urls and
\* changes nothing.
CountersAddUp ==
    /\ [](dedup.stats.duplicates + dedup.stats.unique_urls <= dedup.stats.total_urls)
    /\ [][/\ CountersGrow
          /\ IsDuplicateStep \/ dedup'.stats.total_urls = dedup.stats.total_urls
          /\ (IsDuplicateStep /\ result'.reason \notin ErrorReasons \cup {"Invalid URL format"})
                 => dedup'.stats.duplicates + dedup'.stats.unique_urls
                        = dedup.stats.duplicates + dedup.stats.unique_urls + 1
          /\ GetStatsStep =>
                 /\ dedup' = dedup
                 /\ call'.returned.cache_size = Cardinality(dedup.seen_urls)
                 /\ \A counter \in DOMAIN dedup.stats :
                        call'.returned[counter] = dedup.stats[counter]]_vars

\* C29: total_urls counts the is_duplicate calls, no counter decreases,
\* duplicates + unique_urls <= total_urls with a difference that grows by 1
\* in exactly the calls that return "Invalid URL format" or "Error: ...",
\* and get_stats returns the size of seen_urls as cache_size and changes
\* nothing.
C29_CounterInvariant ==
    /\ [](dedup.stats.duplicates + dedup.stats.unique_urls <= dedup.stats.total_urls)
    /\ [][/\ CountersGrow
          /\ IsDuplicateStep \/ dedup'.stats.total_urls = dedup.stats.total_urls
          /\ IsDuplicateStep =>
                 dedup'.stats.duplicates + dedup'.stats.unique_urls
                     = dedup.stats.duplicates + dedup.stats.unique_urls
                       + (IF result'.reason \in ErrorReasons \cup {"Invalid URL format"}
                          THEN 0 ELSE 1)
          /\ GetStatsStep =>
                 /\ dedup' = dedup
                 /\ call'.returned.cache_size = Cardinality(dedup.seen_urls)]_vars

====
